---- MODULE Spec2Model ----
(***************************************************************************)
(* forward-optimal: a latency-aware TCP forwarder (src/src/main.rs).       *)
(*                                                                         *)
(* One background task probes every configured target each round, scores   *)
(* it, and stores the round's winner in State.best behind a RwLock.  The   *)
(* accept loop reads a snapshot of State.best for every accepted client    *)
(* and spawns one forwarder per connection.                                *)
(*                                                                         *)
(* Five specifications share the variables:                                *)
(*   Spec      the whole process: selection loop, lock, accept loop and    *)
(*             forwarders, on a small network;                             *)
(*   SpecSel   the selection loop alone, on a wider network;               *)
(*   SpecScore one per-target scorer, stepped probe by probe;              *)
(*   SpecHdr   build_proxy_v2_header applied to pairs of addresses;        *)
(*   SpecLive  the two loops and the lock under the runtime's scheduling.  *)
(***************************************************************************)
EXTENDS Integers, Sequences, FiniteSets, TLC

(***************************************************************************)
(* Program constants.                                                      *)
(***************************************************************************)
PROBE_COUNT == 10

PENALTY_MS == 300

CONNECT_TIMEOUT == 1000

(***************************************************************************)
(* Bounds of the model.                                                    *)
(***************************************************************************)
\* number of client connections the accept loop takes in one behaviour
MaxConns == 2

\* number of bytes each client sends on its connection
MaxData == 2

(***************************************************************************)
(* Socket addresses.  A SocketAddr is a family, the octets of its IP and   *)
(* a 16-bit port; a SocketAddrV6 carries a flowinfo and a scope_id too     *)
(* (ext), and two socket addresses are equal when all of it is equal.      *)
(***************************************************************************)
V4(a, b, c, d, port) ==
    [fam |-> "v4", ip |-> <<a, b, c, d>>, port |-> port, ext |-> <<>>]

\* an IPv6 socket address with its flowinfo and its scope_id
V6Scoped(hi, lo, port, flowinfo, scope_id) ==
    [fam |-> "v6",
     ip |-> <<hi, 0, 0, 0, 0, 0, 0, 0, 0, 0, 0, 0, 0, 0, 0, lo>>,
     port |-> port,
     ext |-> <<flowinfo, scope_id>>]

V6(hi, lo, port) == V6Scoped(hi, lo, port, 0, 0)

\* placeholder carried by a None (never read as an address)
NoAddr == [fam |-> "none", ip |-> <<>>, port |-> 0, ext |-> <<>>]

AddrA == V4(10, 0, 0, 1, 8080)

AddrB == V4(10, 0, 0, 2, 443)

AddrC == V6(253, 1, 8080)

PeerV4 == V4(192, 168, 1, 7, 51000)

PeerV6 == V6(254, 9, 40000)

\* a link-local peer seen through two interfaces: one IP and port, two scopes
PeerLL1 == V6Scoped(254, 128, 40000, 0, 1)

PeerLL2 == V6Scoped(254, 128, 40000, 0, 2)

\* the addresses SpecHdr draws its inputs from
AddrPool ==
    {AddrA, AddrB, AddrC, PeerV4, PeerV6,
     V4(0, 0, 0, 0, 0), V4(255, 255, 255, 255, 65535), V4(127, 0, 0, 1, 256),
     V6(0, 0, 0), V6(255, 255, 65535), V6(32, 1, 255), PeerLL1, PeerLL2}

(***************************************************************************)
(* build_proxy_v2_header (main.rs 201-228).                                *)
(***************************************************************************)
\* the two bytes of a u16, low byte first
ToLeBytes(n) == <<n % 256, (n \div 256) % 256>>

\* u16::to_be_bytes
ToBeBytes(n) == <<(n \div 256) % 256, n % 256>>

ProxySignature == <<13, 10, 13, 10, 0, 13, 10, 81, 85, 73, 84, 10>>

\* a header that carries the source port in both port fields
build_proxy_v2_header_one_port(src, dst) ==
    LET header == ProxySignature \o <<33>>
    IN  IF src.fam = "v4" /\ dst.fam = "v4"
        THEN header \o <<17>> \o ToBeBytes(12)
                    \o src.ip \o dst.ip
                    \o ToBeBytes(src.port) \o ToBeBytes(src.port)
        ELSE IF src.fam = "v6" /\ dst.fam = "v6"
        THEN header \o <<33>> \o ToBeBytes(36)
                    \o src.ip \o dst.ip
                    \o ToBeBytes(src.port) \o ToBeBytes(src.port)
        ELSE header \o <<0>> \o ToBeBytes(0)

build_proxy_v2_header(src, dst) ==
    LET header == ProxySignature \o <<33>>
    IN  IF src.fam = "v4" /\ dst.fam = "v4"
        THEN header \o <<17>> \o ToBeBytes(12)
                    \o src.ip \o dst.ip
                    \o ToBeBytes(src.port) \o ToBeBytes(dst.port)
        ELSE IF src.fam = "v6" /\ dst.fam = "v6"
        THEN header \o <<33>> \o ToBeBytes(36)
                    \o src.ip \o dst.ip
                    \o ToBeBytes(src.port) \o ToBeBytes(dst.port)
        ELSE header \o <<0>> \o ToBeBytes(0)

(***************************************************************************)
(* Option<BestTarget>.  One record shape serves None and Some so that a    *)
(* half-written cell is a value too.                                       *)
(***************************************************************************)
None == [some |-> FALSE, name |-> "", addr |-> NoAddr, score |-> 0]

Some(name, addr, score) ==
    [some |-> TRUE, name |-> name, addr |-> addr, score |-> score]

(***************************************************************************)
(* Per-target scoring (main.rs 129-173).                                   *)
(* A probe outcome is Fail (timeout or connect error) or the elapsed       *)
(* milliseconds of a successful connect.  min_ms, max_ms and avg_ms only   *)
(* feed the log line and are not modelled.                                 *)
(***************************************************************************)
Fail == -1

\* the accumulators before the first probe (main.rs 129-130)
ProbeStart == [valid_rtt_sum |-> 0, success_count |-> 0]

\* one iteration of the probe loop (main.rs 141-148)
ProbeStep(acc, res) ==
    IF res # Fail
    THEN [valid_rtt_sum |-> acc.valid_rtt_sum + res,
          success_count |-> acc.success_count + 1]
    ELSE acc

\* a score averaged over the successful attempts only
FinalScoreByCount(valid_rtt_sum, success_count) ==
    (valid_rtt_sum + (PROBE_COUNT - success_count) * PENALTY_MS) \div success_count

\* main.rs 156-157
FinalScore(valid_rtt_sum, success_count) ==
    LET fail_count == PROBE_COUNT - success_count
    IN  (valid_rtt_sum + (fail_count * PENALTY_MS)) \div PROBE_COUNT

\* main.rs 152-173: what the scorer returns once the loop has run
ScoreResult(name, addr, acc) ==
    IF acc.success_count = 0
    THEN None
    ELSE Some(name, addr, FinalScore(acc.valid_rtt_sum, acc.success_count))

RECURSIVE ProbeLoop(_, _)
\* the whole loop over a sequence of PROBE_COUNT outcomes (main.rs 134-150)
ProbeLoop(acc, outcomes) ==
    IF outcomes = <<>>
    THEN acc
    ELSE ProbeLoop(ProbeStep(acc, Head(outcomes)), Tail(outcomes))

(***************************************************************************)
(* The winner of a round (main.rs 178): flatten drops the targets without  *)
(* a score, min_by_key keeps the first of the equally minimal elements.    *)
(***************************************************************************)
RECURSIVE Flatten(_)
Flatten(results) ==
    IF results = <<>>
    THEN <<>>
    ELSE IF Head(results).some
         THEN <<Head(results)>> \o Flatten(Tail(results))
         ELSE Flatten(Tail(results))

RECURSIVE MinFold(_, _)
\* Iterator::min_by_key is a fold that replaces the running minimum only by
\* a strictly smaller key
MinFold(m, rest) ==
    IF rest = <<>>
    THEN m
    ELSE MinFold(IF m.score > Head(rest).score THEN Head(rest) ELSE m, Tail(rest))

RECURSIVE MinFoldLast(_, _)
MinFoldLast(m, rest) ==
    IF rest = <<>>
    THEN m
    ELSE MinFoldLast(IF m.score >= Head(rest).score THEN Head(rest) ELSE m,
                     Tail(rest))

MinByKeyLast(scored) ==
    IF scored = <<>> THEN None ELSE MinFoldLast(Head(scored), Tail(scored))

MinByKey(scored) ==
    IF scored = <<>> THEN None ELSE MinFold(Head(scored), Tail(scored))

(***************************************************************************)
(* Configuration (main.rs 26-31) and the network around the process.       *)
(***************************************************************************)
\* config.targets, in configuration order
Targets ==
    <<[name |-> "t1", addr |-> "h1:8080"],
      [name |-> "t2", addr |-> "h2:443"],
      [name |-> "t3", addr |-> "h3:8080"]>>

TargetIds == DOMAIN Targets

\* config.proxy_protocol: absent, "v2", or some other string
ProxyProtocols == {"absent", "v2", "v1"}

\* the outcomes of the PROBE_COUNT attempts of one scorer: s successes of
\* rtt milliseconds each, the other attempts failed
Outcomes(s, rtt) == [i \in 1..PROBE_COUNT |-> IF i <= s THEN rtt ELSE Fail]

\* the probes of a scorer: all fail, all succeed in 20 ms, or one fails and
\* nine succeed in 20 ms (score 48)
AllFail == Outcomes(0, 0)

AllOk == Outcomes(PROBE_COUNT, 20)

OneLost == Outcomes(PROBE_COUNT - 1, 20)

\* A network: per target, what its host resolves to when the lookup returns
\* addresses (the first one is taken; any lookup may also err or return
\* nothing, and an empty set is a host without address) and how the probes
\* of its scorer can go; and the peer addresses clients connect from.
NetWide ==
    [name |-> "wide",
     dns |-> <<{AddrA, AddrB}, {AddrB}, {AddrC}>>,
     probes |-> <<{AllFail, AllOk, OneLost}, {AllFail, AllOk, OneLost},
                  {AllFail, AllOk}>>,
     peers |-> {PeerV4}]

\* one host that resolves, to an IPv4 or to an IPv6 address, and answers
\* every probe, and two hosts without address
NetSmall ==
    [name |-> "small",
     dns |-> <<{AddrA, AddrC}, {}, {}>>,
     probes |-> <<{AllOk}, {AllFail}, {AllFail}>>,
     peers |-> {PeerV4}]

\* the same hosts, the first one answering every probe of a round or none
NetLive ==
    [name |-> "live",
     dns |-> <<{AddrA, AddrC}, {}, {}>>,
     probes |-> <<{AllFail, AllOk}, {AllFail}, {AllFail}>>,
     peers |-> {PeerV4}]

\* the bytes client c sends, and the bytes its upstream answers
ClientBytes(c) == [i \in 1..MaxData |-> 100 + 10 * c + i]

ServerBytes(c) == <<200 + c>>

ConnIds == 1..MaxConns

(***************************************************************************)
(* State.                                                                  *)
(***************************************************************************)
VARIABLES
    alive,          \* the process runs (main has not returned)
    proxy_protocol, \* config.proxy_protocol
    net,            \* the name of the network of this behaviour
    best,           \* State.best
    lock,           \* the RwLock: "free", "w" (write guard) or "r" (read guard)
    spc,            \* where the background probing task is
    task,           \* per target: the state of its scorer future
    winner,         \* what perform_scoring_check returned this round
    apc,            \* where the accept loop is
    nconn,          \* connections accepted so far
    conn,           \* per connection: socket, snapshot and forwarder state
    hist,           \* history of the selection loop and of the state cell
    sc,             \* SpecScore: one scorer, probe by probe
    hdr             \* SpecHdr: one call of build_proxy_v2_header

vars ==
    <<alive, proxy_protocol, net, best, lock, spc, task, winner, apc, nconn,
      conn, hist, sc, hdr>>

selVars == <<best, spc, task, winner, hist>>

accVars == <<apc, nconn, conn>>

envVars == <<proxy_protocol, net>>

otherVars == <<sc, hdr>>

\* the network this behaviour runs in
Net ==
    IF net = NetWide.name THEN NetWide
    ELSE IF net = NetLive.name THEN NetLive
    ELSE NetSmall

\* A scorer future: st is "idle" (no round runs), "lookup" (awaiting
\* lookup_host), "connect" (awaiting a connect attempt under its timeout),
\* "sleep" (awaiting the 10 ms between two attempts) or "done" (returned).
\*   addr  the address the host resolved to
\*   i     the attempts completed, sleep included
\*   acc   valid_rtt_sum and success_count
\*   res   what the future returned
TaskIdle ==
    [st |-> "idle", addr |-> NoAddr, i |-> 0, acc |-> ProbeStart, res |-> None]

\* a scorer that has returned res
TaskDone(res) == [TaskIdle EXCEPT !.st = "done", !.res = res]

\* the scorer of target t is suspended in one of its awaits
Probing(t) == task[t].st \in {"lookup", "connect", "sleep"}

\* A connection: st is "free" (not accepted yet), "accepted" (held by the
\* accept loop), "dropped", or where its forwarder is: "connect", "opened",
\* "relay", "closed" (returned Ok), "failed" (returned Err).
\*   peer    the client's address
\*   target  the snapshot of State.best taken for it
\*   dst     the address its outbound connection was opened to
\*   out     the bytes written to the outbound connection
\*   up      how many of the client's bytes have been read
\*   down    the bytes written to the client
\*   seen    the latest completed write when its read guard was granted,
\*   none0   whether State.best was None when it was accepted (both kept
\*           until the forwarder's connect returns)
ConnFree ==
    [st |-> "free", peer |-> NoAddr, target |-> None, seen |-> None,
     none0 |-> FALSE, dst |-> NoAddr, out |-> <<>>, up |-> 0, down |-> <<>>]

\* the connection the accept loop is handling
cur == nconn

\* hist.committed  the value of the latest completed write of State.best
\* hist.lastWin    the winner of the latest round that produced a score
\* hist.round      "scored" / "failed": how the round being processed ended
\* hist.before     State.best when the round being processed started
\* hist.report     what the loop logged for the round: "switch", "keep", "none"
\* round, before and report are kept until the sleep that ends the round is over
HistInit ==
    [committed |-> None, lastWin |-> None, round |-> "", before |-> None,
     report |-> ""]

ScIdle ==
    [pc |-> "off", i |-> 0, acc |-> ProbeStart, res |-> None, nfail |-> 0,
     cnt |-> <<>>]

HdrIdle == [st |-> "off", src |-> NoAddr, dst |-> NoAddr, out |-> <<>>]

SysInit ==
    /\ alive = TRUE
    /\ best = None
    /\ lock = "free"
    /\ spc = "start"
    /\ task = [t \in TargetIds |-> TaskIdle]
    /\ winner = None
    /\ apc = "bind"
    /\ nconn = 0
    /\ conn = [c \in ConnIds |-> ConnFree]
    /\ hist = HistInit

(***************************************************************************)
(* The background probing task (main.rs 71-97).                            *)
(***************************************************************************)
\* main.rs 118-177: one future per target is created and join_all polls
\* each of them up to its lookup
StartRound ==
    /\ alive /\ spc = "start"
    /\ task' = [t \in TargetIds |-> [TaskIdle EXCEPT !.st = "lookup"]]
    /\ hist' = [hist EXCEPT !.before = best]
    /\ spc' = "join"
    /\ UNCHANGED <<alive, best, lock, winner, accVars, envVars, otherVars>>

\* main.rs 121-127, lookup_host errs
LookupErr(t) ==
    /\ alive /\ spc = "join" /\ task[t].st = "lookup"
    /\ task' = [task EXCEPT ![t] = TaskDone(None)]
    /\ UNCHANGED <<alive, best, lock, spc, winner, hist, accVars, envVars, otherVars>>

\* main.rs 122, lookup_host returns no address: addrs.next()? returns None
LookupEmpty(t) ==
    /\ alive /\ spc = "join" /\ task[t].st = "lookup"
    /\ task' = [task EXCEPT ![t] = TaskDone(None)]
    /\ UNCHANGED <<alive, best, lock, spc, winner, hist, accVars, envVars, otherVars>>

\* main.rs 121-138: the host resolves, the first address is taken, the
\* accumulators are zeroed and the first connect attempt starts
LookupOk(t) ==
    /\ alive /\ spc = "join" /\ task[t].st = "lookup"
    /\ \E addr \in Net.dns[t] :
          task' = [task EXCEPT ![t] =
                      [TaskIdle EXCEPT !.st = "connect", !.addr = addr]]
    /\ UNCHANGED <<alive, best, lock, spc, winner, hist, accVars, envVars, otherVars>>

\* the outcomes the next attempt of the scorer of t can have: the attempts of
\* one scorer follow one of the sequences of Net.probes[t]
NextOutcomes(t) ==
    {o[task[t].i + 1] : o \in
        {q \in Net.probes[t] :
            ProbeLoop(ProbeStart, SubSeq(q, 1, task[t].i)) = task[t].acc}}

\* a connect attempt without a timeout: on an unresponsive target it never
\* returns
ProbeNoTimeout(t) ==
    /\ alive /\ spc = "join" /\ task[t].st = "connect"
    /\ \E res \in NextOutcomes(t) :
          task' = [task EXCEPT ![t].st = IF res = Fail THEN "hung" ELSE "sleep",
                               ![t].acc = ProbeStep(task[t].acc, res)]
    /\ UNCHANGED <<alive, best, lock, spc, winner, hist, accVars, envVars, otherVars>>

\* main.rs 135-149: the connect attempt under its timeout returns, the
\* accumulators are updated and the 10 ms sleep starts
Probe(t) ==
    /\ alive /\ spc = "join" /\ task[t].st = "connect"
    /\ \E res \in NextOutcomes(t) :
          task' = [task EXCEPT ![t].st = "sleep",
                               ![t].acc = ProbeStep(task[t].acc, res)]
    /\ UNCHANGED <<alive, best, lock, spc, winner, hist, accVars, envVars, otherVars>>

\* main.rs 149, 134-138, 152-173: the sleep returns; the next attempt starts
\* or, after the last one, the scorer returns its result
ProbeDelay(t) ==
    /\ alive /\ spc = "join" /\ task[t].st = "sleep"
    /\ task' = [task EXCEPT ![t] =
                   IF task[t].i + 1 < PROBE_COUNT
                   THEN [task[t] EXCEPT !.st = "connect", !.i = @ + 1]
                   ELSE TaskDone(ScoreResult(Targets[t].name, task[t].addr,
                                             task[t].acc))]
    /\ UNCHANGED <<alive, best, lock, spc, winner, hist, accVars, envVars, otherVars>>

\* join_all: the results in the order of the targets
Results == [t \in TargetIds |-> task[t].res]

perform_scoring_check_last == MinByKeyLast(Flatten(Results))

\* main.rs 177-178
perform_scoring_check == MinByKey(Flatten(Results))

\* main.rs 75, 91-93: join_all returns; a round without a score only logs
JoinAllClear ==
    /\ alive /\ spc = "join"
    /\ \A t \in TargetIds : task[t].st = "done"
    /\ LET w == perform_scoring_check
       IN  /\ winner' = w
           /\ IF w.some
              THEN /\ spc' = "acquire"
                   /\ hist' = [hist EXCEPT !.round = "scored", !.lastWin = w]
                   /\ best' = best
              ELSE /\ spc' = "sleep"
                   /\ hist' = [hist EXCEPT !.round = "failed", !.report = "none",
                                           !.committed = None]
                   /\ best' = None
    /\ UNCHANGED <<alive, lock, task, accVars, envVars, otherVars>>

\* a join that returns as soon as one scorer has finished
JoinAllEarly ==
    /\ alive /\ spc = "join"
    /\ \E t \in TargetIds : task[t].st = "done"
    /\ LET w == perform_scoring_check
       IN  /\ winner' = w
           /\ IF w.some
              THEN /\ spc' = "acquire"
                   /\ hist' = [hist EXCEPT !.round = "scored", !.lastWin = w]
              ELSE /\ spc' = "sleep"
                   /\ hist' = [hist EXCEPT !.round = "failed", !.report = "none"]
    /\ UNCHANGED <<alive, best, lock, task, accVars, envVars, otherVars>>

JoinAll ==
    /\ alive /\ spc = "join"
    /\ \A t \in TargetIds : task[t].st = "done"
    /\ LET w == perform_scoring_check
       IN  /\ winner' = w
           /\ IF w.some
              THEN /\ spc' = "acquire"
                   /\ hist' = [hist EXCEPT !.round = "scored", !.lastWin = w]
              ELSE /\ spc' = "sleep"
                   /\ hist' = [hist EXCEPT !.round = "failed", !.report = "none"]
    /\ UNCHANGED <<alive, best, lock, task, accVars, envVars, otherVars>>

\* the values a cell can hold while new is being moved over old, field
\* after field
Mixes(old, new) ==
    {old,
     [old EXCEPT !.some = new.some],
     [new EXCEPT !.addr = old.addr, !.score = old.score],
     [new EXCEPT !.score = old.score],
     new}

\* a comparison of the whole stored target with the whole winner
is_changed_by_value(current, w) == current # w

\* main.rs 79-82
is_changed(current, w) == IF current.some THEN current.name # w.name ELSE TRUE

\* main.rs 76-90: the write guard is granted, the loop logs whether the
\* winner changed and starts to move the winner into the cell
AcquireWrite ==
    /\ alive /\ spc = "acquire"
    /\ lock = "free"
    /\ lock' = "w"
    /\ hist' = [hist EXCEPT !.report =
                   IF is_changed(best, winner) THEN "switch" ELSE "keep"]
    /\ best' \in Mixes(best, winner)
    /\ task' = [t \in TargetIds |-> TaskIdle]
    /\ spc' = "storing"
    /\ UNCHANGED <<alive, winner, accVars, envVars, otherVars>>

\* a store that keeps the stored target unless the new score is lower
StoreIfLower ==
    /\ alive /\ spc = "storing"
    /\ LET old == hist.committed
           new == IF old.some /\ old.score <= winner.score THEN old ELSE winner
       IN  /\ best' = new
           /\ hist' = [hist EXCEPT !.committed = new]
    /\ lock' = "free"
    /\ winner' = None
    /\ spc' = "sleep"
    /\ UNCHANGED <<alive, task, accVars, envVars, otherVars>>

\* a store whose write guard lives on into the sleep
FinishStoreHold ==
    /\ alive /\ spc = "storing"
    /\ best' = winner
    /\ hist' = [hist EXCEPT !.committed = winner]
    /\ lock' = "w"
    /\ winner' = None
    /\ spc' = "sleep"
    /\ UNCHANGED <<alive, task, accVars, envVars, otherVars>>

\* main.rs 90-91: the cell holds Some(winner) and the guard is dropped
FinishStore ==
    /\ alive /\ spc = "storing"
    /\ best' = winner
    /\ hist' = [hist EXCEPT !.committed = winner]
    /\ lock' = "free"
    /\ winner' = None
    /\ spc' = "sleep"
    /\ UNCHANGED <<alive, task, accVars, envVars, otherVars>>

\* main.rs 95: the sleep of update_interval seconds ends
Sleep ==
    /\ alive /\ spc = "sleep"
    /\ spc' = "start"
    /\ winner' = None
    /\ task' = [t \in TargetIds |-> TaskIdle]
    /\ hist' = [hist EXCEPT !.round = "", !.before = None, !.report = ""]
    /\ UNCHANGED <<alive, best, lock, accVars, envVars, otherVars>>

(***************************************************************************)
(* The accept loop (main.rs 103-113).                                      *)
(***************************************************************************)
\* main.rs 100: the listener is bound
BindOk ==
    /\ alive /\ apc = "bind"
    /\ apc' = "accept"
    /\ UNCHANGED <<alive, lock, selVars, nconn, conn, envVars, otherVars>>

\* main.rs 100: bind returns an error, `?` returns it from main and the
\* runtime is dropped with the probing task, wherever its round is
BindErr ==
    /\ alive /\ apc = "bind"
    /\ alive' = FALSE
    /\ best' = None
    /\ lock' = "free"
    /\ spc' = "exited"
    /\ task' = [t \in TargetIds |-> TaskIdle]
    /\ winner' = None
    /\ apc' = "nobind"
    /\ nconn' = 0
    /\ conn' = [c \in ConnIds |-> ConnFree]
    /\ hist' = HistInit
    /\ UNCHANGED <<envVars, otherVars>>

\* main.rs 104: a client connection is accepted
Accept ==
    /\ alive /\ apc = "accept"
    /\ nconn < MaxConns
    /\ \E peer \in Net.peers :
          conn' = [conn EXCEPT ![nconn + 1] =
                      [ConnFree EXCEPT !.st = "accepted", !.peer = peer,
                                       !.none0 = ~hist.committed.some]]
    /\ nconn' = nconn + 1
    /\ apc' = "read"
    /\ UNCHANGED <<alive, lock, selVars, envVars, otherVars>>

\* main.rs 104: accept returns an error, `?` returns it from main and the
\* runtime is dropped with every task on it
AcceptErr ==
    /\ alive /\ apc = "accept"
    /\ alive' = FALSE
    /\ best' = None
    /\ lock' = "free"
    /\ spc' = "exited"
    /\ task' = [t \in TargetIds |-> TaskIdle]
    /\ winner' = None
    /\ apc' = "exited"
    /\ nconn' = 0
    /\ conn' = [c \in ConnIds |-> ConnFree]
    /\ hist' = HistInit
    /\ UNCHANGED <<envVars, otherVars>>

\* a read that does not wait for the write guard to be dropped
AcquireReadNoWait ==
    /\ alive /\ apc = "read"
    /\ lock' = "r"
    /\ conn' = [conn EXCEPT ![cur].seen = hist.committed]
    /\ apc' = "clone"
    /\ UNCHANGED <<alive, nconn, selVars, envVars, otherVars>>

\* main.rs 105: state.read().await grants the read guard
AcquireRead ==
    /\ alive /\ apc = "read"
    /\ lock = "free"
    /\ lock' = "r"
    /\ conn' = [conn EXCEPT ![cur].seen = hist.committed]
    /\ apc' = "clone"
    /\ UNCHANGED <<alive, nconn, selVars, envVars, otherVars>>

\* a dispatch that hands every connection to a forwarder
CloneDispatchAlways ==
    /\ alive /\ apc = "clone"
    /\ lock' = "free"
    /\ conn' = [conn EXCEPT ![cur].target = best, ![cur].st = "connect"]
    /\ apc' = "accept"
    /\ UNCHANGED <<alive, nconn, selVars, envVars, otherVars>>

\* a dispatch that keeps the read guard after the clone
CloneDispatchHold ==
    /\ alive /\ apc = "clone"
    /\ lock' = "r"
    /\ conn' = [conn EXCEPT ![cur].target = best,
                            ![cur].st = IF best.some THEN "connect" ELSE "dropped"]
    /\ apc' = "accept"
    /\ UNCHANGED <<alive, nconn, selVars, envVars, otherVars>>

\* a dispatch that awaits handle_forward instead of spawning it
CloneDispatchAwait ==
    /\ alive /\ apc = "clone"
    /\ lock' = "free"
    /\ conn' = [conn EXCEPT ![cur].target = best,
                            ![cur].st = IF best.some THEN "connect" ELSE "dropped"]
    /\ apc' = IF best.some THEN "forwarding" ELSE "accept"
    /\ UNCHANGED <<alive, nconn, selVars, envVars, otherVars>>

\* main.rs 105-112: best is cloned, the guard is dropped, and the connection
\* is moved into a spawned forwarder, or dropped when there is no target
CloneDispatch ==
    /\ alive /\ apc = "clone"
    /\ lock' = "free"
    /\ conn' = [conn EXCEPT ![cur].target = best,
                            ![cur].st = IF best.some THEN "connect" ELSE "dropped"]
    /\ apc' = "accept"
    /\ UNCHANGED <<alive, nconn, selVars, envVars, otherVars>>

(***************************************************************************)
(* handle_forward (main.rs 182-198), one per spawned connection.           *)
(***************************************************************************)
\* a connection whose forwarder has returned: the task and both sockets are
\* gone, what is kept is how it ended and the snapshot it had been given
Ended(k, st) == [ConnFree EXCEPT !.st = st, !.target = k.target]

\* a connect to the address State.best holds when the forwarder runs
ConnectOkLive(c) ==
    /\ alive /\ conn[c].st = "connect"
    /\ conn' = [conn EXCEPT ![c].st = "opened", ![c].none0 = FALSE,
                            ![c].seen = None, ![c].dst = best.addr]
    /\ UNCHANGED <<alive, lock, selVars, apc, nconn, envVars, otherVars>>

\* main.rs 183: the outbound connect to target.addr succeeds
ConnectOk(c) ==
    /\ alive /\ conn[c].st = "connect"
    /\ conn' = [conn EXCEPT ![c].st = "opened", ![c].none0 = FALSE,
                            ![c].seen = None, ![c].dst = conn[c].target.addr]
    /\ UNCHANGED <<alive, lock, selVars, apc, nconn, envVars, otherVars>>

\* a forwarder that answers a failed connect by reading the state again and
\* connecting to the target stored now
ConnectErrFallback(c) ==
    /\ alive /\ conn[c].st = "connect"
    /\ conn' = [conn EXCEPT ![c].target = hist.committed]
    /\ UNCHANGED <<alive, lock, selVars, apc, nconn, envVars, otherVars>>

\* main.rs 183: the outbound connect fails and `?` returns
ConnectErr(c) ==
    /\ alive /\ conn[c].st = "connect"
    /\ conn' = [conn EXCEPT ![c] = Ended(conn[c], "failed")]
    /\ UNCHANGED <<alive, lock, selVars, apc, nconn, envVars, otherVars>>

\* main.rs 187-188: header tagging is off
NoHeader(c) ==
    /\ alive /\ conn[c].st = "opened"
    /\ proxy_protocol # "v2"
    /\ conn' = [conn EXCEPT ![c].st = "relay"]
    /\ UNCHANGED <<alive, lock, selVars, apc, nconn, envVars, otherVars>>

\* a header built with the two addresses exchanged
WriteHeaderSwapped(c) ==
    /\ alive /\ conn[c].st = "opened"
    /\ proxy_protocol = "v2"
    /\ conn' = [conn EXCEPT ![c].st = "relay",
                            ![c].out = build_proxy_v2_header(conn[c].target.addr,
                                                             conn[c].peer)]
    /\ UNCHANGED <<alive, lock, selVars, apc, nconn, envVars, otherVars>>

\* main.rs 189-191: the header is built and write_all writes all of it
WriteHeader(c) ==
    /\ alive /\ conn[c].st = "opened"
    /\ proxy_protocol = "v2"
    /\ conn' = [conn EXCEPT ![c].st = "relay",
                            ![c].out = build_proxy_v2_header(conn[c].peer,
                                                             conn[c].target.addr)]
    /\ UNCHANGED <<alive, lock, selVars, apc, nconn, envVars, otherVars>>

\* main.rs 191: write_all fails after part of the header and `?` returns
WriteHeaderErr(c) ==
    /\ alive /\ conn[c].st = "opened"
    /\ proxy_protocol = "v2"
    /\ conn' = [conn EXCEPT ![c] = Ended(conn[c], "failed")]
    /\ UNCHANGED <<alive, lock, selVars, apc, nconn, envVars, otherVars>>

\* main.rs 189: client.peer_addr() is an Err, no header is written and the
\* relay starts
PeerAddrErr(c) ==
    /\ alive /\ conn[c].st = "opened"
    /\ proxy_protocol = "v2"
    /\ conn' = [conn EXCEPT ![c].st = "relay"]
    /\ UNCHANGED <<alive, lock, selVars, apc, nconn, envVars, otherVars>>

\* a relay that writes what it read from its client to the outbound
\* connection of any forwarder
RelayUpAny(c) ==
    /\ alive /\ conn[c].st = "relay"
    /\ conn[c].up < MaxData
    /\ \E d \in ConnIds :
          /\ conn[d].st = "relay"
          /\ conn' = [conn EXCEPT ![c].up = @ + 1,
                                  ![d].out = Append(@, ClientBytes(c)[conn[c].up + 1])]
    /\ UNCHANGED <<alive, lock, selVars, apc, nconn, envVars, otherVars>>

\* main.rs 196: copy_bidirectional moves the next client byte upstream
RelayUp(c) ==
    /\ alive /\ conn[c].st = "relay"
    /\ conn[c].up < MaxData
    /\ conn' = [conn EXCEPT ![c].up = @ + 1,
                            ![c].out = Append(@, ClientBytes(c)[conn[c].up + 1])]
    /\ UNCHANGED <<alive, lock, selVars, apc, nconn, envVars, otherVars>>

\* main.rs 196: copy_bidirectional moves the next upstream byte to the client
RelayDown(c) ==
    /\ alive /\ conn[c].st = "relay"
    /\ Len(conn[c].down) < Len(ServerBytes(c))
    /\ conn' = [conn EXCEPT ![c].down =
                   Append(@, ServerBytes(c)[Len(conn[c].down) + 1])]
    /\ UNCHANGED <<alive, lock, selVars, apc, nconn, envVars, otherVars>>

\* main.rs 196-197: both directions reach end of stream
RelayClose(c) ==
    /\ alive /\ conn[c].st = "relay"
    /\ conn' = [conn EXCEPT ![c] = Ended(conn[c], "closed")]
    /\ UNCHANGED <<alive, lock, selVars, apc, nconn, envVars, otherVars>>

\* main.rs 196: a read or write of the relay fails and `?` returns
RelayErr(c) ==
    /\ alive /\ conn[c].st = "relay"
    /\ conn' = [conn EXCEPT ![c] = Ended(conn[c], "failed")]
    /\ UNCHANGED <<alive, lock, selVars, apc, nconn, envVars, otherVars>>

(***************************************************************************)
(* The specifications of the process.                                      *)
(***************************************************************************)
Selection ==
    \/ StartRound
    \/ \E t \in TargetIds : LookupErr(t)
    \/ \E t \in TargetIds : LookupEmpty(t)
    \/ \E t \in TargetIds : LookupOk(t)
    \/ \E t \in TargetIds : Probe(t)
    \/ \E t \in TargetIds : ProbeDelay(t)
    \/ JoinAll
    \/ AcquireWrite
    \/ FinishStore
    \/ Sleep

Acceptor ==
    \/ BindOk
    \/ BindErr
    \/ Accept
    \/ AcceptErr
    \/ AcquireRead
    \/ CloneDispatch

\* the steps of the forwarder of connection c
FwdStep(c) ==
    \/ ConnectOk(c) \/ ConnectErr(c) \/ NoHeader(c) \/ WriteHeader(c)
    \/ WriteHeaderErr(c) \/ PeerAddrErr(c) \/ RelayUp(c) \/ RelayDown(c)
    \/ RelayClose(c) \/ RelayErr(c)

Forwarder ==
    \/ \E c \in ConnIds : ConnectOk(c)
    \/ \E c \in ConnIds : ConnectErr(c)
    \/ \E c \in ConnIds : NoHeader(c)
    \/ \E c \in ConnIds : WriteHeader(c)
    \/ \E c \in ConnIds : WriteHeaderErr(c)
    \/ \E c \in ConnIds : PeerAddrErr(c)
    \/ \E c \in ConnIds : RelayUp(c)
    \/ \E c \in ConnIds : RelayDown(c)
    \/ \E c \in ConnIds : RelayClose(c)
    \/ \E c \in ConnIds : RelayErr(c)

\* the whole process on a small network
Init ==
    /\ SysInit
    /\ proxy_protocol \in ProxyProtocols
    /\ net = NetSmall.name
    /\ sc = ScIdle
    /\ hdr = HdrIdle

Next == Selection \/ Acceptor \/ Forwarder

Spec == Init /\ [][Next]_vars

\* the selection loop on a wide network, the scorers of its three targets
\* interleaved; the main task stays in its bind
InitSel ==
    /\ SysInit
    /\ proxy_protocol = "absent"
    /\ net = NetWide.name
    /\ sc = ScIdle
    /\ hdr = HdrIdle

NextSel == Selection

SpecSel == InitSel /\ [][NextSel]_vars

\* the process is not part of the behaviour
SysOff ==
    /\ alive = FALSE
    /\ proxy_protocol = "absent"
    /\ net = NetSmall.name
    /\ best = None
    /\ lock = "free"
    /\ spc = "exited"
    /\ task = [t \in TargetIds |-> TaskIdle]
    /\ winner = None
    /\ apc = "exited"
    /\ nconn = 0
    /\ conn = [c \in ConnIds |-> ConnFree]
    /\ hist = HistInit

sysVars ==
    <<alive, proxy_protocol, net, best, lock, spc, task, winner, apc, nconn,
      conn, hist>>

(***************************************************************************)
(* SpecScore: the scorer future of one target (main.rs 120-174), one       *)
(* probe attempt at a time.  sc.nfail counts the attempts that failed and  *)
(* sc.cnt[r] the attempts that succeeded after r milliseconds.             *)
(***************************************************************************)
\* the elapsed times a successful probe is given here.  start.elapsed() is
\* read when the scorer is polled again after the connect has completed
\* (main.rs 141-142), which can be later than the timeout of the attempt
LatePoll == CONNECT_TIMEOUT + 500

RttSet == {0, 20, CONNECT_TIMEOUT, LatePoll}

ScInit ==
    /\ SysOff
    /\ hdr = HdrIdle
    /\ sc = [pc |-> "lookup", i |-> 0, acc |-> ProbeStart, res |-> None,
             nfail |-> 0, cnt |-> [r \in RttSet |-> 0]]

\* main.rs 121-126: the lookup errs or is empty, the scorer returns None
ScLookupFail ==
    /\ sc.pc = "lookup"
    /\ sc' = [sc EXCEPT !.pc = "unresolved", !.res = None]
    /\ UNCHANGED <<sysVars, hdr>>

\* main.rs 121-132: the first address is taken, the accumulators are zeroed
ScLookupOk ==
    /\ sc.pc = "lookup"
    /\ sc' = [sc EXCEPT !.pc = "probe", !.acc = ProbeStart]
    /\ UNCHANGED <<sysVars, hdr>>

\* main.rs 135-148: one connect attempt under the timeout
ScProbe ==
    /\ sc.pc = "probe"
    /\ sc.i < PROBE_COUNT
    /\ \E res \in RttSet \cup {Fail} :
          sc' = [sc EXCEPT !.pc = "sleep",
                           !.acc = ProbeStep(sc.acc, res),
                           !.nfail = IF res = Fail THEN @ + 1 ELSE @,
                           !.cnt = IF res = Fail THEN @
                                   ELSE [@ EXCEPT ![res] = @ + 1]]
    /\ UNCHANGED <<sysVars, hdr>>

\* main.rs 149: the 10 ms between two attempts
ScDelay ==
    /\ sc.pc = "sleep"
    /\ sc' = [sc EXCEPT !.pc = "probe", !.i = @ + 1]
    /\ UNCHANGED <<sysVars, hdr>>

\* main.rs 152-173: the loop is over
ScReturn ==
    /\ sc.pc = "probe"
    /\ sc.i = PROBE_COUNT
    /\ sc' = [sc EXCEPT !.pc = "done",
                        !.res = ScoreResult(Targets[1].name, AddrA, sc.acc)]
    /\ UNCHANGED <<sysVars, hdr>>

ScNext == ScLookupFail \/ ScLookupOk \/ ScProbe \/ ScDelay \/ ScReturn

SpecScore == ScInit /\ [][ScNext]_vars

(***************************************************************************)
(* SpecHdr: build_proxy_v2_header on every pair of addresses of AddrPool.  *)
(***************************************************************************)
HdrInit ==
    /\ SysOff
    /\ sc = ScIdle
    /\ \E src \in AddrPool, dst \in AddrPool :
          hdr = [st |-> "call", src |-> src, dst |-> dst, out |-> <<>>]

HdrBuild ==
    /\ hdr.st = "call"
    /\ hdr' = [hdr EXCEPT !.st = "built",
                          !.out = build_proxy_v2_header(hdr.src, hdr.dst)]
    /\ UNCHANGED <<sysVars, sc>>

HdrNext == HdrBuild

SpecHdr == HdrInit /\ [][HdrNext]_vars

(***************************************************************************)
(* SpecLive: the selection loop, the lock and the accept loop under the    *)
(* scheduling of the runtime, next to one scorer stepped probe by probe.   *)
(*   - tokio polls every task that can make progress: weak fairness of     *)
(*     the steps of the two loops;                                         *)
(*   - every connect attempt of a probe runs under timeout(CONNECT_TIMEOUT)*)
(*     (main.rs 137) and the resolver of the system ends every lookup:     *)
(*     weak fairness of the steps of a scorer;                             *)
(*   - tokio's RwLock queues its waiters first-in first-out, so a waiter   *)
(*     is granted the guard once the holders before it have dropped        *)
(*     theirs: strong fairness of the two acquisitions.                    *)
(* No client has to arrive, and accept may fail: Accept and AcceptErr are  *)
(* under no fairness.                                                      *)
(***************************************************************************)
\* the running process on a small network, or one scorer alone
InitLive ==
    \/ /\ SysInit
       /\ proxy_protocol = "absent"
       /\ net = NetLive.name
       /\ sc = ScIdle
       /\ hdr = HdrIdle
    \/ ScInit

\* the steps of the scorer of target t
ScorerStep(t) ==
    LookupErr(t) \/ LookupEmpty(t) \/ LookupOk(t) \/ Probe(t) \/ ProbeDelay(t)

NextLive == Selection \/ Acceptor \/ ScNext

Fairness ==
    /\ WF_vars(StartRound)
    /\ \A t \in TargetIds : WF_vars(ScorerStep(t))
    /\ WF_vars(JoinAll)
    /\ SF_vars(AcquireWrite)
    /\ WF_vars(FinishStore)
    /\ WF_vars(Sleep)
    /\ SF_vars(AcquireRead)
    /\ WF_vars(CloneDispatch)
    /\ WF_vars(ScNext)

SpecLive == InitLive /\ [][NextLive]_vars /\ Fairness

(***************************************************************************)
(* Properties.                                                             *)
(***************************************************************************)
Scored == {t \in TargetIds : Results[t].some}

\* C1 (SpecSel): when perform_scoring_check has returned for a round in which
\* some target produced a score, the winner is the result of a scored target
\* t, no scored target has a lower score, and no scored target listed before
\* t has the same score; the round is reported failed only when no target
\* produced a score.
C1_WinnerIsFirstMinimum ==
    /\ spc = "acquire" =>
          \E t \in Scored :
             /\ winner = Results[t]
             /\ \A u \in Scored : Results[u].score >= winner.score
             /\ \A u \in Scored : Results[u].score = winner.score => u >= t
    /\ (spc = "sleep" /\ hist.round = "failed") => Scored = {}

\* C1 witness: the first target scored worse than the second and the third,
\* which tie, and the second is the winner
C1_Witness ==
    /\ spc = "acquire"
    /\ Scored = TargetIds
    /\ Results[1].score > Results[2].score
    /\ Results[2].score = Results[3].score
    /\ winner = Results[2]

\* C2 (SpecSel): when the selection loop has processed a round in which no
\* target produced a score, State.best (name, address and score) is what it
\* was when the round started.
C2_FailedRoundKeepsBest ==
    (spc = "sleep" /\ hist.round = "failed") =>
        /\ best = hist.before
        /\ hist.committed = hist.before

\* C2 witness: a round has failed and the winner of an earlier round is
\* still stored
C2_Witness ==
    /\ spc = "sleep"
    /\ hist.round = "failed"
    /\ best.some
    /\ best = hist.lastWin

\* C3 (SpecSel): whenever the selection loop is not between the return of
\* perform_scoring_check and the end of its write, State.best is the whole
\* winner of the latest round that produced a score, and None when no round
\* has produced one.
C3_BestIsLatestWinner ==
    spc \in {"sleep", "start", "join"} =>
        /\ best = hist.lastWin
        /\ best.some <=> hist.lastWin.some

\* C3 witness: a round has replaced a stored winner by one with a higher score
C3_Witness ==
    /\ spc = "sleep"
    /\ hist.round = "scored"
    /\ hist.before.some
    /\ best.score > hist.before.score
    /\ best.name # hist.before.name

\* C4 (Spec): the snapshot taken for a connection is the value of the
\* latest write that was complete when the read guard was granted, and
\* while a read guard is held the cell holds that value.
C4_SnapshotIsCommitted ==
    /\ \A c \in ConnIds :
          conn[c].st \in {"connect", "dropped"} => conn[c].target = conn[c].seen
    /\ lock = "r" => best = hist.committed

\* C4 witness: a snapshot of an earlier winner has been taken, and the next
\* read waits while the cell no longer holds the value of the latest
\* completed write
C4_Witness ==
    /\ \E c \in ConnIds : conn[c].st = "connect" /\ conn[c].target.some
    /\ apc = "read"
    /\ lock = "w"
    /\ hist.committed.some
    /\ best # hist.committed

RECURSIVE SumOver(_, _)
SumOver(f, S) ==
    IF S = {}
    THEN 0
    ELSE LET r == CHOOSE x \in S : TRUE
         IN  f[r] + SumOver(f, S \ {r})

\* the attempts that succeeded, and the sum of their elapsed times
Successes == SumOver(sc.cnt, RttSet)

ElapsedSum == SumOver([r \in RttSet |-> r * sc.cnt[r]], RttSet)

\* C5 (SpecScore): when the scorer returns after its probe loop, the
\* successful and the failed attempts add up to PROBE_COUNT; with no success
\* it returns no score, and otherwise the score
\* (sum of the successful elapsed times + failures * PENALTY_MS) / PROBE_COUNT.
C5_ScoreFormula ==
    sc.pc = "done" =>
        /\ Successes + sc.nfail = PROBE_COUNT
        /\ Successes = 0 => ~sc.res.some
        /\ Successes > 0 =>
              /\ sc.res.some
              /\ sc.res.score =
                    (ElapsedSum + sc.nfail * PENALTY_MS) \div PROBE_COUNT

\* C5 witness: a scorer has returned a score after successes of different
\* elapsed times and some failures
C5_Witness ==
    /\ sc.pc = "done"
    /\ sc.res.some
    /\ sc.nfail = 3
    /\ sc.cnt[20] = 4
    /\ sc.cnt[CONNECT_TIMEOUT] = 3
    /\ sc.res.score = 398

\* every success of the scorer took r milliseconds
AllSuccessesTook(r) == sc.cnt[r] = Successes

\* C6 as claimed (SpecScore): of two outcomes of a target whose successes all
\* took the same time, each with at least one success, the one with more
\* failed attempts has the strictly larger score.
C6_Original ==
    (sc.pc = "done" /\ sc.res.some) =>
        \A r \in RttSet : AllSuccessesTook(r) =>
            \A s2 \in 1..PROBE_COUNT :
                PROBE_COUNT - s2 < sc.nfail =>
                    FinalScore(s2 * r, s2) < sc.res.score

\* C7 as claimed (Spec): a connection accepted while State.best was None is
\* dropped, and a forwarder is spawned exactly for the snapshots that are Some.
C7_Original ==
    \A c \in ConnIds :
        /\ (conn[c].none0 /\ conn[c].st \notin {"free", "accepted"}) =>
               conn[c].st = "dropped"
        /\ conn[c].st \in {"connect", "opened", "relay", "closed", "failed"} =>
               conn[c].target.some
        /\ conn[c].st = "dropped" => ~conn[c].target.some

\* C7 (Spec), amended: a connection whose snapshot is None is dropped: it has
\* no forwarder, nothing has been written to or read from the client, and no
\* forwarder step is possible for it; a connection has (or had) a forwarder
\* exactly when its snapshot is Some.
C7_DroppedIffSnapshotNone ==
    \A c \in ConnIds :
        /\ conn[c].st = "dropped" =>
              /\ ~conn[c].target.some
              /\ conn[c].out = <<>> /\ conn[c].down = <<>> /\ conn[c].up = 0
              /\ ~ENABLED FwdStep(c)
        /\ conn[c].st \in {"connect", "opened", "relay", "closed", "failed"} =>
              conn[c].target.some

\* C7 witness: one connection was dropped and a later one is being relayed
C7_Witness ==
    \E c, d \in ConnIds :
        /\ conn[c].st = "dropped"
        /\ conn[d].st = "relay"
        /\ conn[d].up > 0

\* C8 (Spec): while the process runs and once the listener is bound, the
\* accept loop is only ever at its accept, at its read of the state or
\* holding the read guard, never waiting for a forwarder, and at its accept a
\* client connection can be accepted whatever the forwarders are doing.
C8_AcceptNeverWaits ==
    (alive /\ apc # "bind") =>
        /\ apc \in {"accept", "read", "clone"}
        /\ (apc = "accept" /\ nconn < MaxConns) => ENABLED Accept

\* C8 witness: the forwarder of the first connection is still in its
\* outbound connect and a second connection has been handed to a forwarder
\* and the loop is back at accept
C8_Witness ==
    /\ MaxConns >= 2
    /\ conn[1].st = "connect"
    /\ conn[2].st = "connect"
    /\ apc = "accept"

\* C9 as claimed (Spec): with proxy_protocol "v2" what has been written to
\* the outbound connection is a prefix of the header for the client's peer
\* address and the snapshot's address followed by the client's bytes, and no
\* client byte is written before the whole header; otherwise it is the
\* client's bytes alone.
C9_Original ==
    \A c \in ConnIds : (conn[c].st = "relay" /\ conn[c].up > 0) =>
        LET header == build_proxy_v2_header(conn[c].peer, conn[c].target.addr)
            sent == SubSeq(ClientBytes(c), 1, conn[c].up)
        IN  IF proxy_protocol = "v2"
            THEN conn[c].out = header \o sent
            ELSE conn[c].out = sent

\* C10 (SpecHdr): the header starts with the signature and 0x21; the family
\* byte, the length field and the total length are 0x11, 12, 28 for two IPv4
\* addresses, 0x21, 36, 52 for two IPv6 addresses and 0x00, 0, 16 otherwise;
\* the total is 16 plus the big-endian length field; the payload is source
\* IP, destination IP, source port, destination port, ports big-endian.
C10_HeaderLayout ==
    hdr.st = "built" =>
        LET h == hdr.out
            n == Len(hdr.src.ip)
            field == h[15] * 256 + h[16]
            both(f) == hdr.src.fam = f /\ hdr.dst.fam = f
        IN  /\ SubSeq(h, 1, 12) = <<13, 10, 13, 10, 0, 13, 10, 81, 85, 73, 84, 10>>
            /\ h[13] = 33
            /\ Len(h) = 16 + field
            /\ both("v4") => h[14] = 17 /\ h[15] = 0 /\ h[16] = 12 /\ Len(h) = 28
            /\ both("v6") => h[14] = 33 /\ h[15] = 0 /\ h[16] = 36 /\ Len(h) = 52
            /\ ~(both("v4") \/ both("v6")) =>
                  h[14] = 0 /\ h[15] = 0 /\ h[16] = 0 /\ Len(h) = 16
            /\ (both("v4") \/ both("v6")) =>
                  /\ SubSeq(h, 17, 16 + n) = hdr.src.ip
                  /\ SubSeq(h, 17 + n, 16 + 2 * n) = hdr.dst.ip
                  /\ h[17 + 2 * n] * 256 + h[18 + 2 * n] = hdr.src.port
                  /\ h[19 + 2 * n] * 256 + h[20 + 2 * n] = hdr.dst.port
                  /\ \A i \in 1..Len(h) : h[i] \in 0..255

\* C10 witness: a header has been built for two IPv6 addresses whose ports
\* need both bytes
C10_Witness ==
    /\ hdr.st = "built"
    /\ hdr.src = PeerV6
    /\ hdr.dst = AddrC
    /\ Len(hdr.out) = 52

(***************************************************************************)
(* A decoder of the header, written from the layout of the PROXY protocol  *)
(* version 2: 12 bytes of signature, version and command, family byte,     *)
(* 16-bit length, then source IP, destination IP, source port and          *)
(* destination port, the 16-bit fields big-endian.                         *)
(***************************************************************************)
DecodeHeader(h) ==
    LET n == IF h[14] = 17 THEN 4 ELSE IF h[14] = 33 THEN 16 ELSE 0
    IN  IF n = 0
        THEN [fam |-> "unspec", src_ip |-> <<>>, src_port |-> 0,
              dst_ip |-> <<>>, dst_port |-> 0]
        ELSE [fam |-> IF n = 4 THEN "v4" ELSE "v6",
              src_ip |-> SubSeq(h, 17, 16 + n),
              dst_ip |-> SubSeq(h, 17 + n, 16 + 2 * n),
              src_port |-> h[17 + 2 * n] * 256 + h[18 + 2 * n],
              dst_port |-> h[19 + 2 * n] * 256 + h[20 + 2 * n]]

\* what a header can carry of a pair of addresses of one family
Carried(src, dst) ==
    [fam |-> src.fam, src_ip |-> src.ip, src_port |-> src.port,
     dst_ip |-> dst.ip, dst_port |-> dst.port]

SameFamily(src, dst) == src.fam = dst.fam /\ src.fam \in {"v4", "v6"}

\* C11 as claimed (SpecHdr): the header of a pair of addresses of one family
\* decodes to the IPs and ports of the pair, and two distinct pairs of socket
\* addresses of one family never have the same header.
C11_Original ==
    (hdr.st = "built" /\ SameFamily(hdr.src, hdr.dst)) =>
        /\ DecodeHeader(hdr.out) = Carried(hdr.src, hdr.dst)
        /\ \A s2 \in AddrPool, d2 \in AddrPool :
              (SameFamily(s2, d2) /\ <<s2, d2>> # <<hdr.src, hdr.dst>>) =>
                  build_proxy_v2_header(s2, d2) # hdr.out

\* C11 (SpecHdr), amended: the header of a pair of addresses of one family
\* decodes to the family, the source IP and port and the destination IP and
\* port of the pair, and two pairs of one family that differ in an IP or in
\* a port never have the same header.
C11_RoundTrip ==
    (hdr.st = "built" /\ SameFamily(hdr.src, hdr.dst)) =>
        /\ DecodeHeader(hdr.out) = Carried(hdr.src, hdr.dst)
        /\ \A s2 \in AddrPool, d2 \in AddrPool :
              (SameFamily(s2, d2) /\ Carried(s2, d2) # Carried(hdr.src, hdr.dst))
                  => build_proxy_v2_header(s2, d2) # hdr.out

\* C11 witness: the header of a scoped IPv6 source and an IPv6 destination
\* has been built and decodes to their IPs and ports
C11_Witness ==
    /\ hdr.st = "built"
    /\ hdr.src = PeerLL1
    /\ hdr.dst = AddrC
    /\ DecodeHeader(hdr.out).src_port = 40000
    /\ DecodeHeader(hdr.out).dst_port = 8080
    /\ DecodeHeader(hdr.out).src_ip = PeerLL1.ip

\* the bytes a forwarder may have written before it starts its relay
OwnHeaders(c) == {<<>>, build_proxy_v2_header(conn[c].peer, conn[c].target.addr)}

\* C12 (Spec): whatever the forwarders of the other connections have done,
\* what has been written to the outbound connection of connection c is
\* nothing or c's own header, followed by the bytes read from client c so
\* far and in their order, and what has been written to client c is a prefix
\* of the answer of c's own outbound connection.
C12_OwnBytesOnly ==
    \A c \in ConnIds : conn[c].st = "relay" =>
        /\ \E h \in OwnHeaders(c) :
              conn[c].out = h \o SubSeq(ClientBytes(c), 1, conn[c].up)
        /\ conn[c].down = SubSeq(ServerBytes(c), 1, Len(conn[c].down))
        /\ \A d \in ConnIds \ {c} :
              /\ \A i \in 1..conn[c].up :
                    conn[c].out[Len(conn[c].out) - conn[c].up + i]
                        \notin {ClientBytes(d)[j] : j \in 1..MaxData}
              /\ \A i \in 1..Len(conn[c].down) :
                    conn[c].down[i] \notin {ServerBytes(d)[j] : j \in 1..Len(ServerBytes(d))}

\* C12 witness: two forwarders with snapshots of different targets relay at
\* the same time, each has written its header and client bytes upstream and
\* an answer to its client
C12_Witness ==
    /\ MaxConns >= 2
    /\ proxy_protocol = "v2"
    /\ conn[1].st = "relay" /\ conn[2].st = "relay"
    /\ conn[1].target.addr # conn[2].target.addr
    /\ conn[1].up = MaxData /\ conn[2].up > 0
    /\ Len(conn[1].out) > conn[1].up /\ Len(conn[2].out) > conn[2].up
    /\ conn[1].down # <<>> /\ conn[2].down # <<>>

\* C13 as claimed (Spec): unless the bind of the listener has failed,
\* whatever has failed since (a lookup, a probe, an accept, an outbound
\* connect, a relay), the process runs, the selection loop is in its round or
\* its sleep and the main task is in its bind or in the accept loop.
C13_Original ==
    apc # "nobind" =>
        /\ alive
        /\ spc \in {"start", "join", "acquire", "storing", "sleep"}
        /\ apc \in {"bind", "accept", "read", "clone"}

\* once the listener is bound the process ends by no step but a failed
\* accept: a failed lookup, failed probes, a failed outbound connect and a
\* failed relay leave both loops running
ExitOnlyFromAccept ==
    [][(alive /\ ~alive') =>
          \/ apc = "accept" /\ apc' = "exited" /\ spc' = "exited"
          \/ apc = "bind" /\ apc' = "nobind" /\ spc' = "exited"]_vars

InFlight == {"connect", "opened", "relay"}

\* C14 (Spec): in every step of the running process, a forwarder that has
\* failed stays as it ended (no second attempt), a forwarder in flight keeps
\* the snapshot it was given and never goes back to its connect, and the step
\* in which the connect or the relay of connection c fails changes neither
\* State.best, nor the lock, nor the selection loop, nor any other connection.
C14_FailureEndsOneConnection ==
    [][alive' =>
        \A c \in ConnIds :
            /\ conn[c].st = "failed" => conn'[c] = conn[c]
            /\ conn[c].st \in InFlight => conn'[c].target = conn[c].target
            /\ conn[c].st \in {"opened", "relay"} => conn'[c].st # "connect"
            /\ (conn[c].st \in InFlight /\ conn'[c].st = "failed") =>
                  /\ best' = best /\ lock' = lock
                  /\ <<spc, task, winner, hist>>' = <<spc, task, winner, hist>>
                  /\ <<apc, nconn>>' = <<apc, nconn>>
                  /\ \A d \in ConnIds \ {c} : conn'[d] = conn[d]
      ]_vars

\* C14 witness: one forwarder has failed, State.best is still the target it
\* had been given, and the forwarder of the other connection has relayed all
\* of its client's bytes
C14_Witness ==
    \E c, d \in ConnIds :
        /\ conn[c].st = "failed"
        /\ best = conn[c].target
        /\ conn[d].st = "relay"
        /\ conn[d].up = MaxData
        /\ conn[d].down # <<>>

AllScorersDone == \A t \in TargetIds : task[t].st = "done"

\* C15 (SpecSel): in every step of the running process, the selection loop
\* leaves its join only when the scorer of every target has finished; the
\* write guard is taken only then, for the winner of all the results;
\* State.best changes only between the taking of the write guard and the end
\* of the store, while no scorer is probing; the store is followed by the
\* sleep and the sleep by the start of the next round, with State.best
\* untouched: one write per round at most.
C15_WriteAfterAllScorers ==
    [][alive' =>
        /\ (spc = "join" /\ spc' # "join") => AllScorersDone
        /\ (lock # "w" /\ lock' = "w") =>
              /\ spc = "acquire" /\ spc' = "storing"
              /\ AllScorersDone
              /\ winner = perform_scoring_check
        /\ best' # best =>
              /\ spc \in {"acquire", "storing"}
              /\ \A t \in TargetIds : ~Probing(t)
        /\ (spc = "storing" /\ spc' # "storing") => (spc' = "sleep" /\ lock' = "free")
        /\ (spc = "sleep" /\ spc' # "sleep") => (spc' = "start" /\ best' = best)
        /\ (spc = "start" /\ spc' # "start") => (spc' = "join" /\ best' = best)
      ]_vars

\* C15 witness: the scorers of a round have all finished and the write of
\* the round's winner over an earlier winner is under way
C15_Witness ==
    /\ spc = "storing"
    /\ lock = "w"
    /\ hist.round = "scored"
    /\ hist.before.some
    /\ winner # hist.before
    /\ best # hist.before
    /\ \A t \in TargetIds : ~Probing(t)

\* C16 (Spec): the write guard is held only while the selection loop is
\* between taking it and the end of its store, never while a scorer is in a
\* lookup, a connect attempt or a delay, while waiting for the guard or in
\* the sleep between two rounds; the read guard is held only while the main
\* task clones State.best, never in bind, in accept or while waiting for the
\* guard; and the guard,
\* held by one of the two loops, is never held by a forwarder in its connect,
\* its header write or its relay.
C16_NoGuardWhileSuspended ==
    /\ lock \in {"free", "w", "r"}
    /\ lock = "w" <=> spc = "storing"
    /\ lock = "r" <=> apc = "clone"
    /\ spc \in {"start", "join", "acquire", "sleep", "exited"} => lock # "w"
    /\ apc \in {"bind", "accept", "read", "exited", "nobind"} => lock # "r"
    /\ (\E t \in TargetIds : Probing(t)) => lock # "w"

\* C16 witness: the selection loop sleeps after a store, a forwarder relays,
\* another waits for its connect, and the accept loop waits in accept; the
\* lock is free
C16_Witness ==
    /\ spc = "sleep"
    /\ hist.round = "scored"
    /\ apc = "accept"
    /\ lock = "free"
    /\ \E c, d \in ConnIds : conn[c].st = "relay" /\ conn[d].st = "connect"

\* C17 (SpecLive): while the process runs, every lookup and every connect
\* attempt of a scorer ends, the scorer of every target of a round finishes,
\* the join returns and the loop reaches its sleep, and the sleep is followed
\* by the start of the next round; and a scorer, from its lookup, ends
\* without an address or after its PROBE_COUNT attempts.
C17_RoundCompletes ==
    /\ \A t \in TargetIds :
          (task[t].st = "lookup") ~> (task[t].st \in {"connect", "done"} \/ ~alive)
    /\ \A t \in TargetIds :
          (task[t].st = "connect") ~> (task[t].st = "sleep" \/ ~alive)
    /\ \A t \in TargetIds : Probing(t) ~> (task[t].st = "done" \/ ~alive)
    /\ (spc = "join") ~> (spc = "sleep" \/ ~alive)
    /\ (spc = "sleep") ~> (spc = "start" \/ ~alive)
    /\ (sc.pc = "lookup") ~>
          (sc.pc = "unresolved" \/ (sc.pc = "done" /\ sc.i = PROBE_COUNT))

\* C17 witness: a second round has reached its sleep without a score, after
\* a round that stored a winner
C17_Witness ==
    /\ spc = "sleep"
    /\ hist.round = "failed"
    /\ hist.lastWin.some
    /\ best = hist.lastWin

\* C18 (Spec): the outbound connection of a forwarder is opened to the
\* address of the snapshot it was given, and a header it has written is the
\* header of its client's peer address and of that address, whatever
\* State.best holds by then; the snapshot is the value State.best had under
\* the read guard of its connection and never changes afterwards; and
\* State.best changes only in the steps of the selection loop between taking
\* the write guard and the end of the store, steps that change no connection.
C18_ForwarderUsesSnapshot ==
    /\ [](\A c \in ConnIds :
            /\ conn[c].st \in {"opened", "relay"} => conn[c].dst = conn[c].target.addr
            /\ (conn[c].st = "relay" /\ Len(conn[c].out) > conn[c].up) =>
                  SubSeq(conn[c].out, 1, Len(conn[c].out) - conn[c].up)
                      = build_proxy_v2_header(conn[c].peer, conn[c].target.addr))
    /\ [][alive' =>
            /\ \A c \in ConnIds :
                  conn[c].st \in InFlight => conn'[c].target = conn[c].target
            /\ (apc = "clone" /\ apc' = "accept") =>
                  (lock = "r" /\ conn'[cur].target = best /\ best' = best)
            /\ best' # best =>
                  (spc \in {"acquire", "storing"} /\ (lock' = "w" \/ lock = "w"))
            /\ best' # best => (conn' = conn /\ apc' = apc)
         ]_vars

\* C18 witness: a forwarder relays on a connection opened to its snapshot's
\* address, with the header of that address written, while State.best holds
\* a later winner at a different address
C18_Witness ==
    \E c \in ConnIds :
        /\ proxy_protocol = "v2"
        /\ conn[c].st = "relay"
        /\ conn[c].up > 0
        /\ Len(conn[c].out) > conn[c].up
        /\ lock = "free"
        /\ best.some
        /\ best.addr # conn[c].target.addr
        /\ conn[c].dst = conn[c].target.addr

\* C19 (SpecSel): once the selection loop has logged for a round with a
\* winner, it has reported a switch exactly when nothing was stored when the
\* round started or the stored name differs from the winner's name, and a
\* keep exactly when the two names are equal, whatever the addresses and the
\* scores; and after the store State.best is the winner in both cases.
C19_ReportByName ==
    (spc = "storing" \/ (spc = "sleep" /\ hist.round = "scored")) =>
        /\ hist.report \in {"switch", "keep"}
        /\ hist.report = "switch" <=>
              (~hist.before.some \/ hist.before.name # hist.lastWin.name)
        /\ hist.report = "keep" <=>
              (hist.before.some /\ hist.before.name = hist.lastWin.name)
        /\ spc = "sleep" => (best = hist.lastWin /\ hist.committed = hist.lastWin)

\* C19 witness: a keep has been reported for a winner of the stored name
\* whose address and score are not the stored ones, and the winner is stored
C19_Witness ==
    /\ spc = "sleep"
    /\ hist.round = "scored"
    /\ hist.report = "keep"
    /\ hist.before.name = best.name
    /\ hist.before.addr # best.addr
    /\ hist.before.score # best.score

\* C20 (SpecLive): a held guard can always be dropped by a step of its
\* holder; and while the process runs, a selection loop waiting for the write
\* guard is granted it and goes on to its sleep with its winner stored, an
\* accept loop waiting for the read guard is granted it, and every accepted
\* connection is dropped or handed to a forwarder.
C20_LockGranted ==
    /\ [](lock = "w" => ENABLED FinishStore)
    /\ [](lock = "r" => ENABLED CloneDispatch)
    /\ (spc = "acquire") ~> (spc = "storing" \/ ~alive)
    /\ (spc = "acquire") ~>
          ((spc = "sleep" /\ lock # "w" /\ best = hist.lastWin) \/ ~alive)
    /\ (apc = "read") ~> (apc = "clone" \/ ~alive)
    /\ \A c \in ConnIds :
          (conn[c].st = "accepted") ~>
              (conn[c].st \in {"dropped", "connect"} \/ ~alive)

\* C20 witness: the selection loop waits for the write guard while the accept
\* loop holds the read guard for its second connection, the first one having
\* been handed to a forwarder
C20_Witness ==
    /\ MaxConns >= 2
    /\ spc = "acquire"
    /\ lock = "r"
    /\ apc = "clone"
    /\ nconn = 2
    /\ conn[1].st = "connect"

====
